---- MODULE Spec2Model ----
(***************************************************************************)
(* A model of the CourtSpace3D shot visualiser (nba_shotviz):              *)
(*   src/heatmap.py  zone_diff_grid, add_zone_heatmap_surface,             *)
(*                   add_zone_hover_markers, add_zone_boundaries_from_labels*)
(*   src/viz_3d.py   render_3d_trajectories                                *)
(*   src/data_io.py  load_shotlog, load_shotlog_multi                      *)
(*   app.py          the Streamlit script, one action per rerun            *)
(*                                                                         *)
(* Lengths are integers in quarter feet (Q(ft) = 4 * ft), so that half a   *)
(* bin and the midpoint of two cell centres stay integral.  A float is     *)
(* either NaN or an exact fraction <<n, d>> in lowest terms with d > 0.    *)
(* A DataFrame is a record [none, cols, rows]: none stands for Python's    *)
(* None, cols says whether the frame has its columns (pd.DataFrame() has   *)
(* none), rows is the sequence of rows.  A figure is a record             *)
(* [data, layout] as in plotly: data is the sequence of traces.           *)
(***************************************************************************)
EXTENDS Integers, Sequences, FiniteSets, TLC

VARIABLES
    layout,     \* which member of the family of zone classifiers is in force
    call,       \* the invocation in progress / last made: its name and inputs
    ret,        \* what that invocation returned (None while idle)
    fig,        \* the plotly figure: the sequence of traces added to it
    st_log,     \* what the invocation showed through streamlit, in order
    trace_log,  \* the calls the invocation made to its collaborators, in order
    prev_grid,  \* X, Y, labels and bin_ft of the zone_diff_grid call before
    session,    \* st.session_state of the app
    form,       \* the values of the dataset_picker form as last submitted
    controls,   \* the sidebar controls outside the form
    run         \* what the last rerun of app.py did

vars == <<layout, call, ret, fig, st_log, trace_log, prev_grid,
          session, form, controls, run>>

None == "None"

-----------------------------------------------------------------------------
(* Bounds of the model *)

\* Half-court length and width in feet.  court_geometry.py is not among the
\* sources; the model keeps the court small so that a 2 ft bin gives a 3 x 3 grid.
COURT_LENGTH_HALF == 6
COURT_WIDTH == 6
\* Most shots in a player table, most rows in a league table.
MaxShots == 2
MaxLeagueRows == 2
\* The largest label grid handed to the boundary tracer on its own.
MaxGridRows == 2
MaxGridCols == 3

-----------------------------------------------------------------------------
(* Floats *)

NaN == "nan"

Abs(n) == IF n < 0 THEN -n ELSE n

RECURSIVE GCD(_, _)
GCD(a, b) == IF b = 0 THEN a ELSE GCD(b, a % b)

\* The fraction n/d (d # 0) in lowest terms with a positive denominator.
Rat(n, d) ==
    LET g == GCD(Abs(n), Abs(d))
        s == IF d < 0 THEN -1 ELSE 1
    IN  <<(s * n) \div g, (s * d) \div g>>

Zero == <<0, 1>>

IsNaN(v) == v = NaN

\* a + b, a - b, a / k on floats: NaN is absorbing.
FAdd(a, b) == IF IsNaN(a) \/ IsNaN(b) THEN NaN
              ELSE Rat(a[1] * b[2] + b[1] * a[2], a[2] * b[2])
FSub(a, b) == IF IsNaN(a) \/ IsNaN(b) THEN NaN
              ELSE Rat(a[1] * b[2] - b[1] * a[2], a[2] * b[2])
FDivInt(a, k) == IF IsNaN(a) THEN NaN ELSE Rat(a[1], a[2] * k)

\* f"{v:.1%}": the value in tenths of a percent, rounded half to even; "nan%" for NaN.
FormatPct(v) ==
    IF IsNaN(v) THEN "nan%"
    ELSE LET n == v[1] * 1000
             d == v[2]
             q == n \div d      \* floor
             r == n % d         \* 0 <= r < d
         IN  [permille |-> IF 2 * r > d \/ (2 * r = d /\ q % 2 = 1) THEN q + 1 ELSE q]

-----------------------------------------------------------------------------
(* The zone taxonomy *)

RestrictedArea == "Restricted Area"
InThePaint == "In The Paint (Non-RA)"
MidRange == "Mid-Range"
LeftCorner3 == "Left Corner 3"
RightCorner3 == "Right Corner 3"
AboveTheBreak3 == "Above the Break 3"
Backcourt == "Backcourt"

BasicZones == <<RestrictedArea, InThePaint, MidRange, LeftCorner3,
                RightCorner3, AboveTheBreak3, Backcourt>>

LeftSide == "Left Side(L)"
LeftSideCenter == "Left Side Center(LC)"
Center == "Center(C)"
RightSideCenter == "Right Side Center(RC)"
RightSide == "Right Side(R)"
BackCourtArea == "Back Court(BC)"

Lanes == <<LeftSide, LeftSideCenter, Center, RightSideCenter, RightSide>>

\* Every area string the model feeds to the code.
AreaStrings == {LeftSide, LeftSideCenter, Center, RightSideCenter, RightSide,
                BackCourtArea, None, ""}

\* heatmap.py:17  a mutant that forgets the side-center areas
collapse_sides_only(area) ==
    IF area = LeftSide THEN LeftSide
    ELSE IF area = RightSide THEN RightSide
    ELSE Center

_collapse_atb_area(area) ==
    IF area \in {LeftSide, LeftSideCenter} THEN LeftSide
    ELSE IF area \in {RightSide, RightSideCenter} THEN RightSide
    ELSE Center

\* zone_classify.classify_basic_zone(x, y, pad_ft): a total function of the
\* point and the pad into the basic zones.  Its geometry is not in the
\* sources; the model ranges over the family indexed by lay, in which every
\* cell takes every basic zone.
classify_basic_zone(x, y, pad, lay) ==
    BasicZones[((((x + 3 * y + pad + 12 * COURT_WIDTH) \div 2) + lay) % Len(BasicZones)) + 1]

\* zone_classify.classify_area_lane(y): the lane of the lateral coordinate
\* alone, five equal bands across the width of the court.
classify_area_lane(y) ==
    LET band == ((y + (2 * COURT_WIDTH)) * 5) \div (4 * COURT_WIDTH)
    IN  Lanes[IF band < 0 THEN 1 ELSE IF band > 4 THEN 5 ELSE band + 1]

-----------------------------------------------------------------------------
(* DataFrames and the zone tables *)

DataFrame(rows) == [none |-> FALSE, cols |-> TRUE, rows |-> rows]
\* pd.DataFrame(): no rows and no columns
EmptyFrame == [none |-> FALSE, cols |-> FALSE, rows |-> <<>>]
\* None where a frame is expected
NoneFrame == [none |-> TRUE, cols |-> FALSE, rows |-> <<>>]

IsEmpty(df) == Len(df.rows) = 0

KeyOf(r) == <<r.SHOT_ZONE_BASIC, r.SHOT_ZONE_AREA>>
Keys(tbl) == {KeyOf(tbl[i]) : i \in 1..Len(tbl)}

\* The sum of an integer column over the rows of tbl whose key is k.
SumWhere(tbl, k, col) ==
    LET S[i \in 0..Len(tbl)] ==
            IF i = 0 THEN 0
            ELSE S[i - 1] + (IF KeyOf(tbl[i]) = k THEN tbl[i][col] ELSE 0)
    IN  S[Len(tbl)]

CountWhere(tbl, k) == Cardinality({i \in 1..Len(tbl) : KeyOf(tbl[i]) = k})

\* The sum of a float column over the rows of tbl whose key is k.
FSumWhere(tbl, k, col) ==
    LET S[i \in 0..Len(tbl)] ==
            IF i = 0 THEN Zero
            ELSE IF KeyOf(tbl[i]) = k THEN FAdd(S[i - 1], tbl[i][col]) ELSE S[i - 1]
    IN  S[Len(tbl)]

\* The distinct keys of tbl in order of first appearance.
KeySeq(tbl) ==
    LET K[i \in 0..Len(tbl)] ==
            IF i = 0 THEN <<>>
            ELSE IF \E j \in 1..(i - 1) : KeyOf(tbl[j]) = KeyOf(tbl[i])
                 THEN K[i - 1]
                 ELSE Append(K[i - 1], KeyOf(tbl[i]))
    IN  K[Len(tbl)]

\* zone_tables.player_zone_fg_table(df): one row per (basic, area) of the
\* shots, with the attempts and the makes of that zone.
player_zone_fg_table(df) ==
    LET ks == KeySeq(df.rows)
    IN  [n \in 1..Len(ks) |->
            [SHOT_ZONE_BASIC |-> ks[n][1], SHOT_ZONE_AREA |-> ks[n][2],
             att |-> CountWhere(df.rows, ks[n]),
             made |-> SumWhere(df.rows, ks[n], "SHOT_MADE_FLAG")]]

\* zone_tables.league_zone_fg_table(df): the league rows as they arrive,
\* already aggregated by the data source: zone, area and percentage.
league_zone_fg_table(df) ==
    [n \in 1..Len(df.rows) |->
        [SHOT_ZONE_BASIC |-> df.rows[n].SHOT_ZONE_BASIC,
         SHOT_ZONE_AREA |-> df.rows[n].SHOT_ZONE_AREA,
         league_fg |-> df.rows[n].FG_PCT]]

-----------------------------------------------------------------------------
(* heatmap.zone_diff_grid *)

bad_areas == {BackCourtArea, None}

\* heatmap.py:45  a mutant that keeps every row
keep_all_rows(tbl) == tbl

\* tbl[~tbl["SHOT_ZONE_AREA"].isin(bad_areas)]
drop_bad_areas(tbl) == SelectSeq(tbl, LAMBDA r : r.SHOT_ZONE_AREA \notin bad_areas)

\* heatmap.py:50  a mutant that collapses the area of every row
collapse_every_row(tbl) ==
    [n \in 1..Len(tbl) |-> [tbl[n] EXCEPT !.SHOT_ZONE_AREA = _collapse_atb_area(@)]]

\* The collapse of the area of the Above the Break 3 rows, row by row.
collapse_rows(tbl) ==
    [n \in 1..Len(tbl) |->
        [tbl[n] EXCEPT !.SHOT_ZONE_AREA =
            IF tbl[n].SHOT_ZONE_BASIC = AboveTheBreak3
            THEN _collapse_atb_area(@) ELSE @]]

\* heatmap.py:58  a mutant that divides the misses by the attempts
player_fg_of_misses(made, att) == IF att > 0 THEN Rat(att - made, att) ELSE Zero

\* lambda r: (r["made"] / r["att"]) if r["att"] > 0 else 0.0
player_fg_of(made, att) == IF att > 0 THEN Rat(made, att) ELSE Zero

\* pl.groupby([basic, area]).agg(att sum, made sum), then player_fg
group_player(tbl) ==
    [k \in Keys(tbl) |->
        LET att == SumWhere(tbl, k, "att")
            made == SumWhere(tbl, k, "made")
        IN  [att |-> att, made |-> made, player_fg |-> player_fg_of(made, att)]]

\* heatmap.py:67  a mutant that adds the league percentages up
group_league_sum(tbl) ==
    [k \in Keys(tbl) |-> [league_fg |-> FSumWhere(tbl, k, "league_fg")]]

\* lg.groupby([basic, area]).agg(league_fg mean)
group_league(tbl) ==
    [k \in Keys(tbl) |->
        [league_fg |-> FDivInt(FSumWhere(tbl, k, "league_fg"), CountWhere(tbl, k))]]

\* heatmap.py:71  a mutant that joins on the league table (how="outer")
merge_outer(pl, lg) ==
    [k \in (DOMAIN pl) \cup (DOMAIN lg) |->
        [att |-> IF k \in DOMAIN pl THEN pl[k].att ELSE 0,
         made |-> IF k \in DOMAIN pl THEN pl[k].made ELSE 0,
         player_fg |-> IF k \in DOMAIN pl THEN pl[k].player_fg ELSE Zero,
         league_fg |-> IF k \in DOMAIN lg THEN lg[k].league_fg ELSE NaN]]

\* pl.merge(lg, on=[basic, area], how="left")
merge_left(pl, lg) ==
    [k \in DOMAIN pl |->
        [att |-> pl[k].att, made |-> pl[k].made, player_fg |-> pl[k].player_fg,
         league_fg |-> IF k \in DOMAIN lg THEN lg[k].league_fg ELSE NaN]]

\* heatmap.py:72  a mutant that fills a missing league entry with 0.0
fillna_zero(league_fg, player_fg) == IF IsNaN(league_fg) THEN Zero ELSE league_fg

\* zt["league_fg"].fillna(zt["player_fg"])
fillna(league_fg, player_fg) == IF IsNaN(league_fg) THEN player_fg ELSE league_fg

\* heatmap.py:73  a mutant with the difference the wrong way round
diff_league_minus_player(player_fg, league_fg) == FSub(league_fg, player_fg)

\* zt["diff"] = zt["player_fg"] - zt["league_fg"]
diff_of(player_fg, league_fg) == FSub(player_fg, league_fg)

\* The merged zone table zt of zone_diff_grid, keyed by (basic, area).
zone_table(player_df, league_df) ==
    LET lg == group_league(collapse_rows(drop_bad_areas(league_zone_fg_table(league_df))))
        pl == group_player(collapse_rows(drop_bad_areas(player_zone_fg_table(player_df))))
        zt == merge_left(pl, lg)
    IN  [k \in DOMAIN zt |->
            LET lf == fillna(zt[k].league_fg, zt[k].player_fg)
            IN  [att |-> zt[k].att, made |-> zt[k].made,
                 player_fg |-> zt[k].player_fg, league_fg |-> lf,
                 diff |-> diff_of(zt[k].player_fg, lf)]]

\* heatmap.py:103  a mutant whose default for a missing key is NaN
get_default_nan(d, key, col, default) == IF key \in DOMAIN d THEN d[key][col] ELSE NaN

\* dict.get(key, default) on the lookup built from column col of zt
dict_get(d, key, col, default) == IF key \in DOMAIN d THEN d[key][col] ELSE default

\* np.arange(start, stop, step) for step > 0
arange(start, stop, step) ==
    LET n == IF stop > start THEN ((stop - start) + (step - 1)) \div step ELSE 0
    IN  [k \in 1..n |-> start + ((k - 1) * step)]

x_centers(bin_ft) == arange(2 * bin_ft, 4 * COURT_LENGTH_HALF, 4 * bin_ft)

\* heatmap.py:82  a mutant that starts the rows on the sideline
y_centers_from_edge(bin_ft) == arange(-(2 * COURT_WIDTH), 2 * COURT_WIDTH, 4 * bin_ft)

y_centers(bin_ft) == arange((2 * bin_ft) - (2 * COURT_WIDTH), 2 * COURT_WIDTH, 4 * bin_ft)

\* np.meshgrid(xc, yc): row i, column j
meshgrid_X(xc, yc) == [i \in 1..Len(yc) |-> [j \in 1..Len(xc) |-> xc[j]]]
meshgrid_Y(xc, yc) == [i \in 1..Len(yc) |-> [j \in 1..Len(xc) |-> yc[i]]]

\* heatmap.py:95  a mutant that takes the lane of every cell from y
cell_area_lane_only(basic, y) ==
    LET area == classify_area_lane(y)
    IN  IF basic = AboveTheBreak3 THEN _collapse_atb_area(area) ELSE area

\* The area of a cell: heatmap.py lines 95 to 100.
cell_area(basic, y) ==
    IF basic \in {InThePaint, RestrictedArea} THEN Center
    ELSE LET area == classify_area_lane(y)
         IN  IF basic = AboveTheBreak3 THEN _collapse_atb_area(area) ELSE area

cell_key(x, y, bin_ft, lay) ==
    LET basic == classify_basic_zone(x, y, 2 * bin_ft, lay)
    IN  <<basic, cell_area(basic, y)>>

\* f"{basic}_{area}"
label_of(key) == key[1] \o "_" \o key[2]

\* The hover text of a cell: the zone, the area and the three percentages
\* as f"{p:.1%}", f"{l:.1%}" and f"{diff:+.1%}" print them.
hover_of(key, zt, diff) ==
    [basic |-> key[1], area |-> key[2],
     player |-> FormatPct(dict_get(zt, key, "player_fg", NaN)),
     league |-> FormatPct(dict_get(zt, key, "league_fg", NaN)),
     delta |-> FormatPct(diff)]

\* np.nan_to_num(Zdiff, nan=0.0) on one entry
nan_to_num(v) == IF IsNaN(v) THEN Zero ELSE v

\* An array the flags leave out of the returned tuple.
NotReturned == <<>>

zone_diff_grid(player_df, league_df, bin_ft, return_labels, return_text, lay) ==
    LET zt == zone_table(player_df, league_df)
        xc == x_centers(bin_ft)
        yc == y_centers(bin_ft)
        X == meshgrid_X(xc, yc)
        Y == meshgrid_Y(xc, yc)
        key(i, j) == cell_key(X[i][j], Y[i][j], bin_ft, lay)
        diff(i, j) == dict_get(zt, key(i, j), "diff", Zero)
    IN  [X |-> X, Y |-> Y,
         Zdiff |-> [i \in 1..Len(yc) |-> [j \in 1..Len(xc) |-> nan_to_num(diff(i, j))]],
         labels |-> IF return_labels
                    THEN [i \in 1..Len(yc) |-> [j \in 1..Len(xc) |-> label_of(key(i, j))]]
                    ELSE NotReturned,
         hover_text |-> IF return_text
                        THEN [i \in 1..Len(yc) |-> [j \in 1..Len(xc) |->
                                hover_of(key(i, j), zt, diff(i, j))]]
                        ELSE NotReturned]

-----------------------------------------------------------------------------
(* The figure and the heatmap layers *)

\* court_geometry.build_court_figure(): a figure holding the court lines.
build_court_figure == [data |-> <<[kind |-> "court"]>>, layout |-> [hovermode |-> "default"]]

add_trace(fig3d, trace) == [fig3d EXCEPT !.data = Append(@, trace)]

\* court_geometry.line3d(xs, ys, zs, width, color, opacity): one line trace.
line3d(xs, ys, zs, width, color, opacity) ==
    [kind |-> "line", x |-> xs, y |-> ys, z |-> zs,
     width |-> width, color |-> color, opacity |-> opacity]

\* heatmap.add_zone_heatmap_surface: heights in thousandths of a foot, the
\* colour range in percentage points.
add_zone_heatmap_surface(fig3d, X, Y, Zdiff, vlim, z_lift, showscale, hover_text) ==
    add_trace(fig3d,
        [kind |-> "surface", x |-> X, y |-> Y, z |-> z_lift, surfacecolor |-> Zdiff,
         cmin |-> -vlim, cmax |-> vlim, showscale |-> showscale, text |-> hover_text])

\* X.ravel(): the rows one after the other
ravel(A) ==
    LET ny == Len(A)
        nx == IF ny = 0 THEN 0 ELSE Len(A[1])
    IN  [n \in 1..(ny * nx) |-> A[((n - 1) \div nx) + 1][((n - 1) % nx) + 1]]

\* np.diff(a)
np_diff(a) == [n \in 1..(Len(a) - 1) |-> a[n + 1] - a[n]]

\* np.median(a) of a non-empty sequence: the middle value in sorted order,
\* the mean of the two middle values when the length is even.
np_median(a) ==
    LET n == Len(a)
        \* the k-th smallest value
        kth(k) == CHOOSE v \in {a[i] : i \in 1..n} :
                    /\ Cardinality({i \in 1..n : a[i] < v}) < k
                    /\ Cardinality({i \in 1..n : a[i] <= v}) >= k
    IN  IF n % 2 = 1 THEN kth((n + 1) \div 2)
        ELSE (kth(n \div 2) + kth((n \div 2) + 1)) \div 2

\* float(np.median(np.diff(c))) if c.size > 1 else 2.0, in quarter feet
bin_size(cent) == IF Len(cent) > 1 THEN np_median(np_diff(cent)) ELSE 8

RECURSIVE concat(_)
concat(seqs) == IF Len(seqs) = 0 THEN <<>> ELSE Head(seqs) \o concat(Tail(seqs))

\* heatmap.add_zone_hover_markers: the marker of every cell and, densified,
\* its four neighbours a third of a bin away.  Marker coordinates are in
\* hundredths of a quarter foot.
add_zone_hover_markers(fig3d, X, Y, hover_text, z_up, densify) ==
    LET xc == ravel(X)
        yc == ravel(Y)
        txt == ravel(hover_text)
        dx == bin_size(X[1])
        dy == bin_size([i \in 1..Len(Y) |-> Y[i][1]])
        offs == <<<<0, 0>>, <<33 * dx, 0>>, <<-(33 * dx), 0>>, <<0, 33 * dy>>, <<0, -(33 * dy)>>>>
        shifted(c, k, o) == [n \in 1..Len(c) |-> (100 * c[n]) + offs[o][k]]
        xs == IF densify THEN concat([o \in 1..Len(offs) |-> shifted(xc, 1, o)])
              ELSE [n \in 1..Len(xc) |-> 100 * xc[n]]
        ys == IF densify THEN concat([o \in 1..Len(offs) |-> shifted(yc, 2, o)])
              ELSE [n \in 1..Len(yc) |-> 100 * yc[n]]
        texts == IF densify THEN concat([o \in 1..Len(offs) |-> txt]) ELSE txt
    IN  add_trace([fig3d EXCEPT !.layout.hovermode = "closest"],
            [kind |-> "markers", x |-> xs, y |-> ys, z |-> z_up, text |-> texts])

\* heatmap.py:253  a mutant that takes the centres themselves for edges
edges_on_centers(cent) == cent \o <<cent[Len(cent)] + bin_size(cent)>>

\* The edges of the bins from their centres: heatmap.py lines 253 and 254.
edges(cent) ==
    LET d == bin_size(cent)
    IN  <<cent[1] - (d \div 2)>>
        \o [n \in 1..(Len(cent) - 1) |-> (cent[n] + cent[n + 1]) \div 2]
        \o <<cent[Len(cent)] + (d \div 2)>>

halo_width_extra == 3

\* heatmap.py:260  a mutant that draws the halo over the boundary
add_segment_halo_last(fig3d, seg, z_up, width, halo) ==
    LET main == line3d(<<seg[1], seg[2]>>, <<seg[3], seg[4]>>, <<z_up, z_up>>,
                       width, "black", 100)
        under == line3d(<<seg[1], seg[2]>>, <<seg[3], seg[4]>>, <<z_up, z_up>>,
                        width + halo_width_extra, "white", 100)
    IN  IF halo THEN add_trace(add_trace(fig3d, main), under) ELSE add_trace(fig3d, main)

\* _add_segment(x0, x1, y0, y1): the halo, if asked for, then the boundary
add_segment(fig3d, seg, z_up, width, halo) ==
    LET main == line3d(<<seg[1], seg[2]>>, <<seg[3], seg[4]>>, <<z_up, z_up>>,
                       width, "black", 100)
        under == line3d(<<seg[1], seg[2]>>, <<seg[3], seg[4]>>, <<z_up, z_up>>,
                        width + halo_width_extra, "white", 100)
    IN  IF halo THEN add_trace(add_trace(fig3d, under), main) ELSE add_trace(fig3d, main)

\* The pairs (i, j) of range(ni) x range(nj), in loop order.
loop_pairs(ni, nj) ==
    [n \in 1..(ni * nj) |-> <<((n - 1) \div nj) + 1, ((n - 1) % nj) + 1>>]

\* heatmap.py:272  a mutant that also closes the last column against nothing
vertical_segments_every_pair(labels, x_edges, y_edges) ==
    LET ny == Len(labels)
        nx == Len(labels[1])
        at == loop_pairs(ny, nx - 1)
    IN  [n \in 1..Len(at) |->
            <<x_edges[at[n][2] + 1], x_edges[at[n][2] + 1],
              y_edges[at[n][1]], y_edges[at[n][1] + 1]>>]

\* The segments of the first loop: between horizontal neighbours that differ.
vertical_segments(labels, x_edges, y_edges) ==
    LET ny == Len(labels)
        nx == Len(labels[1])
        at == SelectSeq(loop_pairs(ny, nx - 1),
                        LAMBDA c : labels[c[1]][c[2]] # labels[c[1]][c[2] + 1])
    IN  [n \in 1..Len(at) |->
            <<x_edges[at[n][2] + 1], x_edges[at[n][2] + 1],
              y_edges[at[n][1]], y_edges[at[n][1] + 1]>>]

\* The segments of the second loop: between vertical neighbours that differ.
horizontal_segments(labels, x_edges, y_edges) ==
    LET ny == Len(labels)
        nx == Len(labels[1])
        at == SelectSeq(loop_pairs(ny - 1, nx),
                        LAMBDA c : labels[c[1]][c[2]] # labels[c[1] + 1][c[2]])
    IN  [n \in 1..Len(at) |->
            <<x_edges[at[n][2]], x_edges[at[n][2] + 1],
              y_edges[at[n][1] + 1], y_edges[at[n][1] + 1]>>]

add_zone_boundaries_from_labels(fig3d, X, Y, labels, z_up, width, halo) ==
    LET x_cent == X[1]
        y_cent == [i \in 1..Len(Y) |-> Y[i][1]]
        x_edges == edges(x_cent)
        y_edges == edges(y_cent)
        segs == vertical_segments(labels, x_edges, y_edges)
                \o horizontal_segments(labels, x_edges, y_edges)
        F[n \in 0..Len(segs)] ==
            IF n = 0 THEN fig3d ELSE add_segment(F[n - 1], segs[n], z_up, width, halo)
    IN  F[Len(segs)]

-----------------------------------------------------------------------------
(* viz_3d.render_3d_trajectories *)

\* The orders in which add_shots_from_df may draw the shots of df: all of
\* them as they stand when the cap allows it, else any sample cap shots,
\* drawn without replacement.
Samples(df, sample) ==
    LET n == Len(df.rows)
    IN  IF sample >= n THEN {[i \in 1..n |-> i]}
        ELSE {q \in [1..sample -> 1..n] : \A i, j \in 1..sample : q[i] = q[j] => i = j}

\* shots.add_shots_from_df(fig, df, sample=..., uniform_color=..., width=...,
\* opacity=...): one arc per shot drawn, coloured by the result unless a
\* uniform colour is asked for; returns the figure and the number of arcs.
add_shots_from_df(fig3d, df, picked, uniform_color, width, opacity) ==
    LET arc(n) == [kind |-> "arc", shot |-> df.rows[picked[n]],
                   color |-> IF uniform_color # None THEN uniform_color
                             ELSE IF df.rows[picked[n]].SHOT_MADE_FLAG = 1
                                  THEN "made" ELSE "missed",
                   width |-> width, opacity |-> opacity]
        F[n \in 0..Len(picked)] == IF n = 0 THEN fig3d ELSE add_trace(F[n - 1], arc(n))
    IN  [fig |-> F[Len(picked)], added |-> Len(picked)]

Shown(kind, value) == [kind |-> kind, value |-> value]
Called(fn, arg) == [fn |-> fn, arg |-> arg]

\* viz_3d.py:29  a mutant that only looks for None
league_is_none(league_df) == league_df.none

\* league_df is None or league_df.empty
league_missing(league_df) == league_df.none \/ IsEmpty(league_df)

\* The three heatmap layers laid over the figure from the grid g:
\* viz_3d.py lines 38 to 46.
overlay_of(fig3d, g, vlim) ==
    add_zone_boundaries_from_labels(
        add_zone_hover_markers(
            add_zone_heatmap_surface(fig3d, g.X, g.Y, g.Zdiff, vlim, 10, TRUE, NotReturned),
            g.X, g.Y, g.hover_text, 11, TRUE),
        g.X, g.Y, g.labels, 90, 3, TRUE)

\* The grid and its layers: viz_3d.py lines 33 to 46.
overlay_layers(fig3d, df, league_df, vlim, lay) ==
    overlay_of(fig3d, zone_diff_grid(df, league_df, 2, TRUE, TRUE, lay), vlim)

\* viz_3d.py:55  a mutant that reports no count after the warning
rendered_without_count_when_warned(shots, warned, with_grid, sample, vlim) ==
    [fig |-> shots.fig,
     st_log |->
        (IF warned THEN <<Shown("warning", 0)>> ELSE <<Shown("caption", shots.added)>>)
        \o <<Shown("plotly_chart", Len(shots.fig.data))>>,
     trace_log |->
        (IF with_grid
         THEN <<Called("zone_diff_grid", 2), Called("add_zone_heatmap_surface", vlim),
                Called("add_zone_hover_markers", 11),
                Called("add_zone_boundaries_from_labels", 90)>>
         ELSE <<>>)
        \o <<Called("add_shots_from_df", sample)>>]

\* What a call leaves behind once the arcs are drawn: the figure handed to
\* st.plotly_chart, what streamlit showed and the collaborators called.
rendered(shots, warned, with_grid, sample, vlim) ==
    [fig |-> shots.fig,
     st_log |->
        (IF warned THEN <<Shown("warning", 0)>> ELSE <<>>)
        \o <<Shown("caption", shots.added), Shown("plotly_chart", Len(shots.fig.data))>>,
     trace_log |->
        (IF with_grid
         THEN <<Called("zone_diff_grid", 2), Called("add_zone_heatmap_surface", vlim),
                Called("add_zone_hover_markers", 11),
                Called("add_zone_boundaries_from_labels", 90)>>
         ELSE <<>>)
        \o <<Called("add_shots_from_df", sample)>>]

\* render_3d_trajectories(df, league_df, sample, overlay_heatmap, vlim,
\* force_make_miss_colors), with the shots add_shots_from_df draws.
render_3d_trajectories(df, league_df, sample, overlay_heatmap, vlim, force_make_miss_colors, picked, lay) ==
    rendered(
        add_shots_from_df(
            IF overlay_heatmap /\ ~league_missing(league_df)
            THEN overlay_layers(build_court_figure, df, league_df, vlim, lay)
            ELSE build_court_figure,
            df, picked,
            IF force_make_miss_colors THEN None ELSE "#666666",
            IF overlay_heatmap THEN 5 ELSE 6,
            IF overlay_heatmap THEN 40 ELSE 55),
        overlay_heatmap /\ league_missing(league_df),
        overlay_heatmap /\ ~league_missing(league_df),
        sample, vlim)

-----------------------------------------------------------------------------
(* The inputs the model draws *)

\* The nondecreasing index sequences over 1..n of length at most m: one
\* representative of every multiset of at most m rows.
IndexSeqs(n, m) ==
    {q \in UNION {[1..k -> 1..n] : k \in 0..m} :
        \A i \in 1..(Len(q) - 1) : q[i] <= q[i + 1]}

Shot(basic, area, made) ==
    [SHOT_ZONE_BASIC |-> basic, SHOT_ZONE_AREA |-> area, SHOT_MADE_FLAG |-> made]

ShotKinds ==
    <<Shot(AboveTheBreak3, LeftSide, 1),
      Shot(AboveTheBreak3, LeftSideCenter, 0),
      Shot(AboveTheBreak3, BackCourtArea, 1),
      Shot(RestrictedArea, Center, 1),
      Shot(MidRange, LeftSideCenter, 0),
      Shot(MidRange, None, 1)>>

LeagueRow(basic, area, pct) ==
    [SHOT_ZONE_BASIC |-> basic, SHOT_ZONE_AREA |-> area, FG_PCT |-> pct]

LeagueKinds ==
    <<LeagueRow(AboveTheBreak3, LeftSide, Rat(1, 4)),
      LeagueRow(AboveTheBreak3, LeftSideCenter, Rat(1, 2)),
      LeagueRow(AboveTheBreak3, BackCourtArea, Rat(1, 50)),
      LeagueRow(RestrictedArea, Center, Rat(13, 20)),
      LeagueRow(MidRange, LeftSideCenter, Rat(2, 5))>>

PlayerFrames ==
    {DataFrame([i \in 1..Len(q) |-> ShotKinds[q[i]]]) : q \in IndexSeqs(Len(ShotKinds), MaxShots)}

LeagueFrames ==
    {DataFrame([i \in 1..Len(q) |-> LeagueKinds[q[i]]]) : q \in IndexSeqs(Len(LeagueKinds), MaxLeagueRows)}

BinFts == {2, 3}

Layouts == 0..(Len(BasicZones) - 1)

-----------------------------------------------------------------------------
(* data_io: players, seasons and the shot log loaders *)

NumSeasons == 2
SeasonStart == 1996

\* get_available_seasons(): a season is named by the year it starts in.
available_seasons == [i \in 1..NumSeasons |-> SeasonStart + (i - 1)]

\* get_available_players(): the sorted full names; get_name_to_id() knows
\* the same names.
available_players == <<"A", "B">>
name_to_id == {available_players[i] : i \in 1..Len(available_players)}

SeasonTypes == <<"Regular Season", "Playoffs">>

\* What the statistics service answers for a player, a season and a season
\* type.  A plays every regular season and never in the playoffs; B starts a
\* season later, then plays regular season and playoffs.  The league
\* averages are there for every season.
ShotChartDetail(player_id, season, season_type) ==
    [player |->
        IF player_id = "A"
        THEN IF season_type = "Playoffs" THEN <<>>
             ELSE IF (season - SeasonStart) % 2 = 0
                  THEN <<ShotKinds[1], ShotKinds[5]>>
                  ELSE <<ShotKinds[4]>>
        ELSE IF season = SeasonStart THEN <<>>
             ELSE IF season_type = "Playoffs" THEN <<ShotKinds[4]>>
                  ELSE <<ShotKinds[2]>>,
     league |-> <<LeagueKinds[1], LeagueKinds[2], LeagueKinds[4]>>]

\* data_io.load_shotlog: the pair (player_df, league_df).  The venue and
\* opponent columns _attach_venue_and_opponent adds are not followed.
load_shotlog(player_name, season, season_type) ==
    IF player_name \notin name_to_id THEN <<EmptyFrame, EmptyFrame>>
    ELSE <<DataFrame(ShotChartDetail(player_name, season, season_type).player),
           DataFrame(ShotChartDetail(player_name, season, season_type).league)>>

\* df.assign(SEASON=s)
assign_season(df, s) ==
    [n \in 1..Len(df.rows) |-> df.rows[n] @@ ("SEASON" :> s)]

\* The frames of one side (1 the player's, 2 the league's) that are not
\* empty, each with its SEASON column, one after the other.
frames_of(side, player_name, seasons, season_type) ==
    LET F[n \in 0..Len(seasons)] ==
            IF n = 0 THEN <<>>
            ELSE IF IsEmpty(load_shotlog(player_name, seasons[n], season_type)[side])
                 THEN F[n - 1]
                 ELSE F[n - 1] \o assign_season(
                        load_shotlog(player_name, seasons[n], season_type)[side], seasons[n])
    IN  F[Len(seasons)]

\* pd.DataFrame() if not frames else pd.concat(frames, ignore_index=True)
concat_frames(rows) == IF rows = <<>> THEN EmptyFrame ELSE DataFrame(rows)

\* data_io.load_shotlog_multi
load_shotlog_multi(player_name, seasons, season_type) ==
    <<concat_frames(frames_of(1, player_name, seasons, season_type)),
      concat_frames(frames_of(2, player_name, seasons, season_type))>>

-----------------------------------------------------------------------------
(* app.py: one run of the script *)

NoKey == <<>>

Form(sel_player, season_min, season_max, season_type) ==
    [sel_player |-> sel_player, season_min |-> season_min,
     season_max |-> season_max, season_type |-> season_type]

Controls(sample, show_heatmap, vlim, mm, rg) ==
    [sample |-> sample, show_heatmap |-> show_heatmap, vlim |-> vlim, mm |-> mm, rg |-> rg]

\* The widgets as they are drawn first: the first player, the latest
\* season, the regular season; the cap at its default, no heatmap, all
\* results, arcs in red and green.
DefaultForm ==
    Form(available_players[1], available_seasons[NumSeasons],
         available_seasons[NumSeasons], SeasonTypes[1])
MaxSample == 2
SampleCaps == 1..MaxSample
Vlims == {15}
DefaultControls == Controls(MaxSample, FALSE, 15, "All", TRUE)

\* st.session_state before the script has run
NoSession ==
    [initialized |-> FALSE, loaded_key |-> NoKey, player_df |-> NoneFrame,
     league_df |-> NoneFrame, season_min |-> 0, season_max |-> 0]
NoForm == DefaultForm
NoControls == DefaultControls
NoRun == [submitted |-> FALSE, outcome |-> "none", caption |-> <<>>,
          total_shots |-> 0, makes |-> 0]

\* app.py lines 42 to 51
session_init(s) ==
    IF s.initialized THEN s
    ELSE [initialized |-> TRUE, loaded_key |-> NoKey, player_df |-> NoneFrame,
          league_df |-> NoneFrame, season_min |-> available_seasons[NumSeasons],
          season_max |-> available_seasons[NumSeasons]]

\* min_i > max_i
range_invalid(f) == f.season_min > f.season_max

\* available_seasons[min_i : max_i + 1]
selected_seasons(f) ==
    [n \in 1..((f.season_max - f.season_min) + 1) |-> f.season_min + (n - 1)]

requested_key(f) == <<f.sel_player, f.season_min, f.season_max, f.season_type>>

\* app.py:129  a mutant that fetches on every submit
fetch_on_every_submit(submitted, f, s) == submitted

\* app.py:129  the condition of the fetch block
should_fetch(submitted, f, s) == submitted /\ requested_key(f) # s.loaded_key

\* app.py lines 133 to 140
fetch(f) ==
    IF Len(selected_seasons(f)) > 1
    THEN load_shotlog_multi(f.sel_player, selected_seasons(f), f.season_type)
    ELSE load_shotlog(f.sel_player, selected_seasons(f)[1], f.season_type)

\* The loaders called by the run, in order.
fetch_calls(submitted, f, s) ==
    IF range_invalid(f) \/ ~should_fetch(submitted, f, session_init(s)) THEN <<>>
    ELSE IF Len(selected_seasons(f)) > 1
         THEN <<Called("load_shotlog_multi", Len(selected_seasons(f)))>>
         ELSE <<Called("load_shotlog", f.season_min)>>

\* app.py:143  a mutant that keeps the old league frame
loaded_without_league(s, f, dfs) ==
    [s EXCEPT !.player_df = dfs[1], !.loaded_key = requested_key(f)]

\* The session the fetch block leaves: app.py lines 142 to 144.
loaded(s, f, dfs) ==
    [s EXCEPT !.player_df = dfs[1], !.league_df = dfs[2], !.loaded_key = requested_key(f)]

\* The season range written back: app.py lines 89 and 90.
with_range(s, f) == [s EXCEPT !.season_min = f.season_min, !.season_max = f.season_max]

\* app.py:89  a mutant that writes the season range before the check
session_after_range_first(s, submitted, f) ==
    IF range_invalid(f) THEN with_range(session_init(s), f)
    ELSE IF should_fetch(submitted, f, session_init(s))
         THEN loaded(with_range(session_init(s), f), f, fetch(f))
         ELSE with_range(session_init(s), f)

\* st.session_state at the end of the run.
session_after(s, submitted, f) ==
    IF range_invalid(f) THEN session_init(s)
    ELSE IF should_fetch(submitted, f, session_init(s))
         THEN loaded(with_range(session_init(s), f), f, fetch(f))
         ELSE with_range(session_init(s), f)

\* filters.filter_df(player_df, state): the shots with the result asked
\* for; the other filters let every shot of the model through.  A frame
\* without columns comes back as it is.
filter_df(df, c) ==
    LET keep(r) == \/ c.mm = "All"
                   \/ c.mm = "Makes" /\ r.SHOT_MADE_FLAG = 1
                   \/ c.mm = "Misses" /\ r.SHOT_MADE_FLAG = 0
    IN  IF ~df.cols THEN df ELSE DataFrame(SelectSeq(df.rows, keep))

\* df_filtered["SHOT_MADE_FLAG"].sum()
made_sum(df) ==
    LET S[n \in 0..Len(df.rows)] ==
            IF n = 0 THEN 0 ELSE S[n - 1] + df.rows[n].SHOT_MADE_FLAG
    IN  S[Len(df.rows)]

\* app.py:373  a mutant without the gate
no_heatmap_gate(c) == FALSE

\* show_heatmap and state["result"] != "All"
heatmap_gate(c) == c.show_heatmap /\ c.mm # "All"

\* How the run ends, given the session s the fetch block left.
page_outcome(s, f, c) ==
    IF range_invalid(f) THEN "invalid_range"
    ELSE IF s.player_df.none THEN "landing"
    ELSE IF heatmap_gate(c) THEN "heatmap_needs_all"
    ELSE IF ~filter_df(s.player_df, c).cols THEN "KeyError"
    ELSE IF ~s.player_df.cols THEN "KeyError"
    ELSE IF IsEmpty(filter_df(s.player_df, c)) THEN "no_shots"
    ELSE "rendered"

\* What the run reports of itself: the caption and the shot profile.
run_of(s, submitted, f, c) ==
    [submitted |-> submitted,
     outcome |-> page_outcome(s, f, c),
     caption |-> IF page_outcome(s, f, c) \in {"invalid_range", "landing", "heatmap_needs_all"}
                 THEN <<>> ELSE <<s.loaded_key[1], s.loaded_key[2], s.loaded_key[3]>>,
     total_shots |-> IF page_outcome(s, f, c) \in {"no_shots", "rendered"}
                     THEN Len(filter_df(s.player_df, c).rows) ELSE 0,
     makes |-> IF page_outcome(s, f, c) \in {"no_shots", "rendered"}
               THEN made_sum(filter_df(s.player_df, c)) ELSE 0]

\* What streamlit shows of a run that does not reach the renderer.
page_message(outcome) ==
    IF outcome \in {"invalid_range", "heatmap_needs_all"} THEN <<Shown("error", 0)>>
    ELSE IF outcome \in {"landing", "no_shots"} THEN <<Shown("info", 0)>>
    ELSE IF outcome = "KeyError" THEN <<Shown("exception", 0)>>
    ELSE <<>>

\* The collaborators a run calls on the page before the renderer.
page_calls(outcome) ==
    IF outcome \in {"KeyError", "no_shots", "rendered"}
    THEN <<Called("filter_df", 0)>> ELSE <<>>

-----------------------------------------------------------------------------
(* The app's state while the heatmap functions are exercised directly *)

AppIdle ==
    /\ session = NoSession
    /\ form = NoForm
    /\ controls = NoControls
    /\ run = NoRun

NoCall == [fn |-> "idle"]
NoFig == [data |-> <<>>, layout |-> [hovermode |-> "default"]]
NoGrid == [bin_ft |-> 0, X |-> <<>>, Y |-> <<>>, labels |-> <<>>]

Idle == call = NoCall

-----------------------------------------------------------------------------
(* Direct calls of zone_diff_grid and _collapse_atb_area                   *)

InitGrid ==
    /\ layout \in Layouts
    /\ call = NoCall
    /\ ret = None
    /\ fig = NoFig
    /\ st_log = <<>>
    /\ trace_log = <<>>
    /\ prev_grid = NoGrid
    /\ AppIdle

ZoneDiffGrid ==
    /\ Idle
    /\ \E player_df \in PlayerFrames, league_df \in LeagueFrames, bin_ft \in BinFts,
          return_labels \in BOOLEAN, return_text \in BOOLEAN :
        /\ call' = [fn |-> "zone_diff_grid", player_df |-> player_df,
                    league_df |-> league_df, bin_ft |-> bin_ft,
                    return_labels |-> return_labels, return_text |-> return_text]
        /\ ret' = zone_diff_grid(player_df, league_df, bin_ft,
                                 return_labels, return_text, layout)
    /\ UNCHANGED <<layout, fig, st_log, trace_log, prev_grid, session, form, controls, run>>

\* _collapse_atb_area on an area string, or on what it returned the last time.
CollapseArea ==
    /\ \/ /\ Idle
          /\ \E area \in AreaStrings :
                call' = [fn |-> "_collapse_atb_area", area |-> area, again |-> FALSE]
       \/ /\ call.fn = "_collapse_atb_area"
          /\ ~call.again
          /\ call' = [fn |-> "_collapse_atb_area", area |-> ret, again |-> TRUE]
    /\ ret' = _collapse_atb_area(call'.area)
    /\ UNCHANGED <<layout, fig, st_log, trace_log, prev_grid, session, form, controls, run>>

\* The percentage of one row of the grouped player table: the lambda of
\* heatmap.py line 58 on a row with att attempts and made makes.
PlayerFg ==
    /\ Idle
    /\ \E att \in 0..MaxShots :
        \E made \in 0..att :
            /\ call' = [fn |-> "player_fg", att |-> att, made |-> made]
            /\ ret' = player_fg_of(made, att)
    /\ UNCHANGED <<layout, fig, st_log, trace_log, prev_grid, session, form, controls, run>>

\* The caller takes the result; the grid of a zone_diff_grid call that returned
\* its labels is kept for the comparison with the calls after it.
Return ==
    /\ ~Idle
    /\ prev_grid' = IF call.fn = "zone_diff_grid" /\ call.return_labels
                    THEN [bin_ft |-> call.bin_ft, X |-> ret.X, Y |-> ret.Y,
                          labels |-> ret.labels]
                    ELSE prev_grid
    /\ call' = NoCall
    /\ ret' = None
    /\ UNCHANGED <<layout, fig, st_log, trace_log, session, form, controls, run>>

NextGrid == ZoneDiffGrid \/ CollapseArea \/ PlayerFg \/ Return

SpecGrid == InitGrid /\ [][NextGrid]_vars

-----------------------------------------------------------------------------
(* What the claims about zone_diff_grid speak of, stated from their words  *)

GridCall == call.fn = "zone_diff_grid"

\* The cells of the returned grid.
Cells == {c \in (1..Len(ret.X)) \X (1..Len(x_centers(call.bin_ft))) : TRUE}

KeyAt(c) == cell_key(ret.X[c[1]][c[2]], ret.Y[c[1]][c[2]], call.bin_ft, layout)

\* The rows that count: those whose area is neither back court nor None.
Counted(rows) ==
    {i \in 1..Len(rows) : rows[i].SHOT_ZONE_AREA \notin {"Back Court(BC)", "None"}}

\* The area a row of Above the Break 3 counts under.
ExpectedCollapse(area) ==
    CASE area \in {"Left Side(L)", "Left Side Center(LC)"} -> "Left Side(L)"
      [] area \in {"Right Side(R)", "Right Side Center(RC)"} -> "Right Side(R)"
      [] OTHER -> "Center(C)"

CountedKey(r) ==
    <<r.SHOT_ZONE_BASIC,
      IF r.SHOT_ZONE_BASIC = "Above the Break 3"
      THEN ExpectedCollapse(r.SHOT_ZONE_AREA) ELSE r.SHOT_ZONE_AREA>>

RowsOf(rows, k) == {i \in Counted(rows) : CountedKey(rows[i]) = k}

PlayerKeys == {CountedKey(call.player_df.rows[i]) : i \in Counted(call.player_df.rows)}
LeagueKeys == {CountedKey(call.league_df.rows[i]) : i \in Counted(call.league_df.rows)}

Attempts(k) == Cardinality(RowsOf(call.player_df.rows, k))
Makes(k) == Cardinality({i \in RowsOf(call.player_df.rows, k) :
                            call.player_df.rows[i].SHOT_MADE_FLAG = 1})

RECURSIVE SumPct(_, _)
SumPct(rows, I) ==
    IF I = {} THEN Zero
    ELSE LET i == CHOOSE n \in I : TRUE
         IN  FAdd(rows[i].FG_PCT, SumPct(rows, I \ {i}))

\* The unweighted mean of the league percentages of the rows of key k.
LeagueMean(k) ==
    FDivInt(SumPct(call.league_df.rows, RowsOf(call.league_df.rows, k)),
            Cardinality(RowsOf(call.league_df.rows, k)))

\* C4: in the grid zone_diff_grid returns, every cell whose key is not in the
\* merged zone table (the player's keys after the filter and the collapse)
\* has diff exactly 0.0, a key only the league table has included.
C4_AbsentKeyIsZero ==
    GridCall => \A c \in Cells :
        KeyAt(c) \notin PlayerKeys => ret.Zdiff[c[1]][c[2]] = Zero

\* A call whose league table has a key the player table lacks, and a cell of it.
C4_Witness ==
    /\ GridCall
    /\ \E c \in Cells :
        /\ KeyAt(c) \in LeagueKeys \ PlayerKeys
        /\ LeagueMean(KeyAt(c)) # Zero
        /\ ret.Zdiff[c[1]][c[2]] = Zero

\* C5: for a key of the player table with no league entry the player's own
\* percentage stands in for the league's: every cell of that key has diff 0,
\* and its hover text shows the player's percentage as the league's.
C5_PlayerOnlyKeyIsNeutral ==
    GridCall => \A c \in Cells :
        KeyAt(c) \in PlayerKeys \ LeagueKeys =>
            /\ ret.Zdiff[c[1]][c[2]] = Zero
            /\ call.return_text =>
                /\ ret.hover_text[c[1]][c[2]].player =
                        FormatPct(Rat(Makes(KeyAt(c)), Attempts(KeyAt(c))))
                /\ ret.hover_text[c[1]][c[2]].league = ret.hover_text[c[1]][c[2]].player

C5_Witness ==
    /\ GridCall
    /\ call.return_text
    /\ \E c \in Cells :
        /\ KeyAt(c) \in PlayerKeys \ LeagueKeys
        /\ Makes(KeyAt(c)) > 0
        /\ ret.Zdiff[c[1]][c[2]] = Zero

\* C6: every cell of a key in both tables has diff = makes / attempts minus
\* the league percentage of the key, and every other cell has diff 0.0.
C6_DiffOfSharedKey ==
    GridCall => \A c \in Cells :
        ret.Zdiff[c[1]][c[2]] =
            IF KeyAt(c) \in PlayerKeys \cap LeagueKeys
            THEN FSub(Rat(Makes(KeyAt(c)), Attempts(KeyAt(c))), LeagueMean(KeyAt(c)))
            ELSE Zero

\* One make of one attempt in the restricted area against a league 0.65:
\* +0.35 on the cells of that zone, 0.0 on a cell elsewhere.
C6_Witness ==
    /\ GridCall
    /\ \E c \in Cells :
        /\ KeyAt(c) = <<"Restricted Area", "Center(C)">>
        /\ KeyAt(c) \in PlayerKeys \cap LeagueKeys
        /\ ret.Zdiff[c[1]][c[2]] = Rat(7, 20)
    /\ \E c \in Cells :
        /\ KeyAt(c) # <<"Restricted Area", "Center(C)">>
        /\ ret.Zdiff[c[1]][c[2]] = Zero

\* C7: _collapse_atb_area sends the left side and left side-center areas to
\* "Left Side(L)", the right ones to "Right Side(R)", everything else to
\* "Center(C)"; applied to its own result it returns that result.
C7_CollapseIdempotent ==
    call.fn = "_collapse_atb_area" =>
        /\ call.area \in {"Left Side(L)", "Left Side Center(LC)"} => ret = "Left Side(L)"
        /\ call.area \in {"Right Side(R)", "Right Side Center(RC)"} => ret = "Right Side(R)"
        /\ call.area \notin {"Left Side(L)", "Left Side Center(LC)",
                             "Right Side(R)", "Right Side Center(RC)"} => ret = "Center(C)"
        /\ call.again => ret = call.area

\* The collapse applied a second time, to the result of a side-center area.
C7_Witness ==
    /\ call.fn = "_collapse_atb_area"
    /\ call.again
    /\ call.area = "Left Side(L)"
    /\ ret = "Left Side(L)"

\* C8: nothing handed on for a cell is NaN: no diff of the grid, and none of
\* the percentages of the cell's hover text.
C8_NoNaNReachesRenderer ==
    GridCall => \A c \in Cells :
        /\ ~IsNaN(ret.Zdiff[c[1]][c[2]])
        /\ call.return_text =>
            /\ ret.hover_text[c[1]][c[2]].player # "nan%"
            /\ ret.hover_text[c[1]][c[2]].league # "nan%"
            /\ ret.hover_text[c[1]][c[2]].delta # "nan%"

\* The merged zone table of the call.
MergedTable == zone_table(call.player_df, call.league_df)

\* a <= b on floats that are numbers
FLe(a, b) == a[1] * b[2] <= b[1] * a[2]
InUnit(v) == ~IsNaN(v) /\ FLe(Zero, v) /\ FLe(v, <<1, 1>>)

\* C13: every entry of the merged zone table has 0 <= made <= att, the
\* attempts and makes being those of the shots of its key; its player_fg is
\* made / att when att > 0 and 0.0 when att = 0, so it lies in [0, 1]; and
\* with league_fg in [0, 1] its diff lies in [-1, 1].  The percentage of a
\* row is that of the row's own att and made, 0.0 for a row without attempts.
C13_ZoneStatWellFormed ==
    /\ GridCall =>
        LET zt == MergedTable
        IN  \A k \in DOMAIN zt :
                /\ 0 <= zt[k].made /\ zt[k].made <= zt[k].att
                /\ zt[k].att = Attempts(k) /\ zt[k].made = Makes(k)
                /\ zt[k].player_fg = IF zt[k].att > 0 THEN Rat(zt[k].made, zt[k].att) ELSE Zero
                /\ InUnit(zt[k].player_fg)
                /\ InUnit(zt[k].league_fg) =>
                    /\ ~IsNaN(zt[k].diff)
                    /\ FLe(<<-1, 1>>, zt[k].diff) /\ FLe(zt[k].diff, <<1, 1>>)
    /\ call.fn = "player_fg" =>
        /\ ret = IF call.att > 0 THEN Rat(call.made, call.att) ELSE Zero
        /\ InUnit(ret)

\* A zone with a make of two attempts against a league entry.
C13_Witness ==
    /\ GridCall
    /\ \E k \in DOMAIN MergedTable :
        /\ MergedTable[k].att = 2
        /\ MergedTable[k].made = 1
        /\ k \in LeagueKeys
        /\ MergedTable[k].diff # Zero

\* The shape an array of the result has: its rows, and the columns of each.
SameShape(A, ny, nx) == Len(A) = ny /\ \A i \in 1..ny : Len(A[i]) = nx

\* C10: the shape and the cell centres of the grid follow from the court and
\* bin_ft alone: x = bin_ft/2 + k*bin_ft below the half-court length,
\* y = -width/2 + bin_ft/2 + k*bin_ft below width/2; every returned array has
\* that shape; and a call with the bin_ft of an earlier call returns the
\* X, Y and labels of that call whatever the tables.
C10_GridFromCourtAndBin ==
    GridCall =>
        LET b == 4 * call.bin_ft
            ny == Len(ret.X)
            nx == IF ny = 0 THEN 0 ELSE Len(ret.X[1])
        IN  /\ nx = Cardinality({k \in 0..(4 * COURT_LENGTH_HALF) :
                                    (b \div 2) + k * b < 4 * COURT_LENGTH_HALF})
            /\ ny = Cardinality({k \in 0..(4 * COURT_WIDTH) :
                                    (b \div 2) - 2 * COURT_WIDTH + k * b < 2 * COURT_WIDTH})
            /\ SameShape(ret.X, ny, nx)
            /\ SameShape(ret.Y, ny, nx)
            /\ SameShape(ret.Zdiff, ny, nx)
            /\ call.return_labels => SameShape(ret.labels, ny, nx)
            /\ call.return_text => SameShape(ret.hover_text, ny, nx)
            /\ \A i \in 1..ny, j \in 1..nx :
                /\ ret.X[i][j] = (b \div 2) + (j - 1) * b
                /\ ret.Y[i][j] = (b \div 2) - 2 * COURT_WIDTH + (i - 1) * b
            /\ prev_grid.bin_ft = call.bin_ft =>
                /\ ret.X = prev_grid.X
                /\ ret.Y = prev_grid.Y
                /\ call.return_labels => ret.labels = prev_grid.labels

\* A second call with the bin of the first and other tables.
C10_Witness ==
    /\ GridCall
    /\ call.return_labels
    /\ prev_grid.bin_ft = call.bin_ft
    /\ Len(call.player_df.rows) = MaxShots
    /\ ret.labels = prev_grid.labels
    /\ \E c \in Cells : ret.Zdiff[c[1]][c[2]] # Zero

\* The basic zone and the lane of the centre of cell c.
BasicAt(c) == classify_basic_zone(ret.X[c[1]][c[2]], ret.Y[c[1]][c[2]], 2 * call.bin_ft, layout)
LaneAt(c) == classify_area_lane(ret.Y[c[1]][c[2]])

\* The area the rules give cell c.
AreaAt(c) ==
    IF BasicAt(c) \in {"Restricted Area", "In The Paint (Non-RA)"} THEN "Center(C)"
    ELSE IF BasicAt(c) = "Above the Break 3" THEN ExpectedCollapse(LaneAt(c))
    ELSE LaneAt(c)

\* C16: every cell of the grid has a label, "<basic>_<area>" of its one key:
\* the area is "Center(C)" when the basic zone is the restricted area or the
\* paint, one of the three collapsed areas when it is Above the Break 3, and
\* the lane of y otherwise; the hover text names the same zone and area.
C16_OneKeyAndLabelPerCell ==
    GridCall =>
        /\ call.return_labels =>
            /\ Len(ret.labels) = Len(ret.X)
            /\ \A i \in 1..Len(ret.X) : Len(ret.labels[i]) = Len(ret.X[i])
            /\ \A c \in Cells : ret.labels[c[1]][c[2]] = BasicAt(c) \o "_" \o AreaAt(c)
        /\ call.return_text =>
            \A c \in Cells :
                /\ ret.hover_text[c[1]][c[2]].basic = BasicAt(c)
                /\ ret.hover_text[c[1]][c[2]].area = AreaAt(c)
        /\ \A c \in Cells :
            /\ KeyAt(c) = <<BasicAt(c), AreaAt(c)>>
            /\ BasicAt(c) = "Above the Break 3" =>
                    KeyAt(c)[2] \in {"Left Side(L)", "Right Side(R)", "Center(C)"}

\* A grid with a paint cell off the centre lane, an Above the Break 3 cell
\* in a side-center lane and a mid-range cell in one.
C16_Witness ==
    /\ GridCall
    /\ call.return_labels
    /\ \E c \in Cells :
        /\ BasicAt(c) = "In The Paint (Non-RA)"
        /\ LaneAt(c) # "Center(C)"
        /\ ret.labels[c[1]][c[2]] = "In The Paint (Non-RA)_Center(C)"
    /\ \E c \in Cells :
        /\ BasicAt(c) = "Above the Break 3"
        /\ LaneAt(c) = "Left Side Center(LC)"
        /\ ret.labels[c[1]][c[2]] = "Above the Break 3_Left Side(L)"
    /\ \E c \in Cells :
        /\ BasicAt(c) = "Mid-Range"
        /\ ret.labels[c[1]][c[2]] = "Mid-Range_" \o LaneAt(c)

\* The rows of a table in a disallowed area.
Discarded(rows) ==
    {i \in 1..Len(rows) : rows[i].SHOT_ZONE_AREA \in {"Back Court(BC)", "None"}}

\* C17: the rows of the back court and of no area are out of both tables
\* before anything is counted: the merged table has no key of such an area,
\* its keys are those of the other player rows, and each entry has the
\* attempts, the makes and the league mean of the other rows alone; a
\* cell's diff is that of those rows.
C17_BadAreasDiscarded ==
    GridCall =>
        LET zt == MergedTable
        IN  /\ DOMAIN zt = PlayerKeys
            /\ \A k \in DOMAIN zt :
                /\ k[2] \notin {"Back Court(BC)", "None"}
                /\ zt[k].att = Attempts(k)
                /\ zt[k].made = Makes(k)
                /\ zt[k].league_fg =
                        IF k \in LeagueKeys THEN LeagueMean(k) ELSE zt[k].player_fg
            /\ \A c \in Cells :
                KeyAt(c) \notin PlayerKeys => ret.Zdiff[c[1]][c[2]] = Zero

\* A back-court three of the player and one of the league next to rows
\* that count under Above the Break 3.
C17_Witness ==
    /\ GridCall
    /\ \E i \in Discarded(call.player_df.rows) :
            call.player_df.rows[i].SHOT_ZONE_BASIC = "Above the Break 3"
    /\ \E i \in Discarded(call.league_df.rows) :
            call.league_df.rows[i].SHOT_ZONE_BASIC = "Above the Break 3"
    /\ \E k \in DOMAIN MergedTable : k[1] = "Above the Break 3"
    /\ Len(call.player_df.rows) > Cardinality(Discarded(call.player_df.rows))

\* C18: the league percentage of a key is the plain mean of the
\* percentages of the league rows that fall under it after the collapse,
\* each row counting once; the player's percentage is the makes of all the
\* rows under the key over their attempts; the diff of the key's cells is
\* the one minus the other.
C18_LeagueMeanPlayerPooled ==
    GridCall =>
        LET zt == MergedTable
        IN  /\ \A k \in DOMAIN zt :
                /\ k \in LeagueKeys =>
                    zt[k].league_fg =
                        FDivInt(SumPct(call.league_df.rows, RowsOf(call.league_df.rows, k)),
                                Cardinality(RowsOf(call.league_df.rows, k)))
                /\ zt[k].player_fg = Rat(Makes(k), Attempts(k))
            /\ \A c \in Cells :
                KeyAt(c) \in PlayerKeys \cap LeagueKeys =>
                    ret.Zdiff[c[1]][c[2]] =
                        FSub(Rat(Makes(KeyAt(c)), Attempts(KeyAt(c))), LeagueMean(KeyAt(c)))

\* The left side of Above the Break 3: league rows of 25% and 50% give
\* 37.5%; a make on the side and a miss on the side-center give 50%.
C18_Witness ==
    /\ GridCall
    /\ Cardinality(RowsOf(call.league_df.rows, <<"Above the Break 3", "Left Side(L)">>)) = 2
    /\ Cardinality(RowsOf(call.player_df.rows, <<"Above the Break 3", "Left Side(L)">>)) = 2
    /\ MergedTable[<<"Above the Break 3", "Left Side(L)">>].league_fg = Rat(3, 8)
    /\ MergedTable[<<"Above the Break 3", "Left Side(L)">>].player_fg = Rat(1, 2)
    /\ MergedTable[<<"Above the Break 3", "Left Side(L)">>].diff = Rat(1, 8)

\* The sum of column col of the entries of table zt under the keys K.
RECURSIVE SumOver(_, _, _)
SumOver(zt, K, col) ==
    IF K = {} THEN 0
    ELSE LET k == CHOOSE x \in K : TRUE
         IN  zt[k][col] + SumOver(zt, K \ {k}, col)

\* The counted player rows recorded under zone and area as they came.
RawRows(k) ==
    {i \in Counted(call.player_df.rows) :
        /\ call.player_df.rows[i].SHOT_ZONE_BASIC = k[1]
        /\ call.player_df.rows[i].SHOT_ZONE_AREA = k[2]}
MadeIn(I) == Cardinality({i \in I : call.player_df.rows[i].SHOT_MADE_FLAG = 1})

\* C19: the merged table holds every attempt and every make of the player
\* rows outside the back court and the None area, each once; the entry of a
\* key outside Above the Break 3 has exactly the attempts and makes of the
\* rows that came with that zone and area; and the entries of Above the
\* Break 3 together hold those of its rows.
C19_CountsConserved ==
    GridCall =>
        LET zt == MergedTable
            rows == call.player_df.rows
            Atb == {k \in DOMAIN zt : k[1] = "Above the Break 3"}
            AtbRows == {i \in Counted(rows) : rows[i].SHOT_ZONE_BASIC = "Above the Break 3"}
        IN  /\ SumOver(zt, DOMAIN zt, "att") = Cardinality(Counted(rows))
            /\ SumOver(zt, DOMAIN zt, "made") = MadeIn(Counted(rows))
            /\ \A k \in (DOMAIN zt) \ Atb :
                /\ zt[k].att = Cardinality(RawRows(k))
                /\ zt[k].made = MadeIn(RawRows(k))
            /\ \A i \in Counted(rows) \ AtbRows :
                    <<rows[i].SHOT_ZONE_BASIC, rows[i].SHOT_ZONE_AREA>> \in DOMAIN zt
            /\ SumOver(zt, Atb, "att") = Cardinality(AtbRows)
            /\ SumOver(zt, Atb, "made") = MadeIn(AtbRows)

\* A side-center shot of Above the Break 3, counted under its left side,
\* next to a side-center mid-range shot, which stays where it is.
C19_Witness ==
    /\ GridCall
    /\ RawRows(<<"Above the Break 3", "Left Side Center(LC)">>) # {}
    /\ RawRows(<<"Mid-Range", "Left Side Center(LC)">>) # {}
    /\ MergedTable[<<"Above the Break 3", "Left Side(L)">>].att = 1
    /\ MergedTable[<<"Mid-Range", "Left Side Center(LC)">>].att = 1

-----------------------------------------------------------------------------
(* Direct calls of add_zone_boundaries_from_labels                         *)

BoundaryLabels == {"Restricted Area_Center(C)", "Mid-Range_Center(C)"}

InitBoundary ==
    /\ layout = 0
    /\ call = NoCall
    /\ ret = None
    /\ fig = NoFig
    /\ st_log = <<>>
    /\ trace_log = <<>>
    /\ prev_grid = NoGrid
    /\ AppIdle

\* The tracer on a grid of ny x nx cells of bin_ft feet, centred on the
\* hoop line, with its default height, width and colours.
AddZoneBoundaries ==
    /\ Idle
    /\ \E ny \in 1..MaxGridRows, nx \in 1..MaxGridCols, bin_ft \in BinFts, halo \in BOOLEAN :
        \E labels \in [1..ny -> [1..nx -> BoundaryLabels]] :
            LET xc == arange(2 * bin_ft, (2 * bin_ft) + (4 * bin_ft * nx), 4 * bin_ft)
                yc == arange((2 * bin_ft) - (2 * bin_ft * ny), 2 * bin_ft * ny, 4 * bin_ft)
                X == meshgrid_X(xc, yc)
                Y == meshgrid_Y(xc, yc)
            IN  /\ call' = [fn |-> "add_zone_boundaries_from_labels",
                            X |-> X, Y |-> Y, labels |-> labels, halo |-> halo]
                /\ fig' = add_zone_boundaries_from_labels(build_court_figure, X, Y,
                                                          labels, 80, 3, halo)
    /\ ret' = None
    /\ UNCHANGED <<layout, st_log, trace_log, prev_grid, session, form, controls, run>>

\* The caller takes the figure.
ReturnFigure ==
    /\ ~Idle
    /\ call' = NoCall
    /\ ret' = None
    /\ fig' = NoFig
    /\ UNCHANGED <<layout, st_log, trace_log, prev_grid, session, form, controls, run>>

NextBoundary == AddZoneBoundaries \/ ReturnFigure

SpecBoundary == InitBoundary /\ [][NextBoundary]_vars

BoundaryCall == call.fn = "add_zone_boundaries_from_labels"

\* The main boundary traces of the figure: the black lines.
MainTraces == {n \in 1..Len(fig.data) :
                 fig.data[n].kind = "line" /\ fig.data[n].color = "black"}
HaloTraces == {n \in 1..Len(fig.data) :
                 fig.data[n].kind = "line" /\ fig.data[n].color = "white"}

\* The pairs of neighbouring cells: c and the cell to its right, c and the
\* cell below it.
SidePairs == {c \in (1..Len(call.labels)) \X (1..(Len(call.labels[1]) - 1)) : TRUE}
StackPairs == {c \in (1..(Len(call.labels) - 1)) \X (1..Len(call.labels[1])) : TRUE}

\* A trace lies between cell c and its right neighbour: it is vertical, at
\* an x strictly between the two centres, and passes the row of c.
BetweenSide(t, c) ==
    /\ t.x[1] = t.x[2]
    /\ call.X[c[1]][c[2]] < t.x[1] /\ t.x[1] < call.X[c[1]][c[2] + 1]
    /\ t.y[1] < call.Y[c[1]][c[2]] /\ call.Y[c[1]][c[2]] < t.y[2]

\* A trace lies between cell c and the cell below it.
BetweenStack(t, c) ==
    /\ t.y[1] = t.y[2]
    /\ call.Y[c[1]][c[2]] < t.y[1] /\ t.y[1] < call.Y[c[1] + 1][c[2]]
    /\ t.x[1] < call.X[c[1]][c[2]] /\ call.X[c[1]][c[2]] < t.x[2]

\* C3: the tracer puts exactly one main segment on the shared edge of two
\* neighbouring cells whose labels differ, none on the edge of two cells with
\* the same label, and nothing anywhere else (no outer border).
C3_SegmentIffLabelsDiffer ==
    BoundaryCall =>
        /\ \A c \in SidePairs :
            Cardinality({n \in MainTraces : BetweenSide(fig.data[n], c)}) =
                IF call.labels[c[1]][c[2]] # call.labels[c[1]][c[2] + 1] THEN 1 ELSE 0
        /\ \A c \in StackPairs :
            Cardinality({n \in MainTraces : BetweenStack(fig.data[n], c)}) =
                IF call.labels[c[1]][c[2]] # call.labels[c[1] + 1][c[2]] THEN 1 ELSE 0
        /\ Cardinality(MainTraces) =
              Cardinality({c \in SidePairs :
                              call.labels[c[1]][c[2]] # call.labels[c[1]][c[2] + 1]})
            + Cardinality({c \in StackPairs :
                              call.labels[c[1]][c[2]] # call.labels[c[1] + 1][c[2]]})

\* A grid with a side pair that differs, a side pair that agrees, a stacked
\* pair that differs and one that agrees.
C3_Witness ==
    /\ BoundaryCall
    /\ \E c \in SidePairs : call.labels[c[1]][c[2]] # call.labels[c[1]][c[2] + 1]
    /\ \E c \in SidePairs : call.labels[c[1]][c[2]] = call.labels[c[1]][c[2] + 1]
    /\ \E c \in StackPairs : call.labels[c[1]][c[2]] # call.labels[c[1] + 1][c[2]]
    /\ \E c \in StackPairs : call.labels[c[1]][c[2]] = call.labels[c[1] + 1][c[2]]
    /\ Cardinality(MainTraces) >= 2

\* Trace n has the endpoints of trace m.
SameEndpoints(n, m) == fig.data[n].x = fig.data[m].x /\ fig.data[n].y = fig.data[m].y

\* C11: with halo on, every main boundary trace has its halo right before
\* it in the figure, with the same endpoints and the wider line, every halo
\* is followed by its main trace, and there are as many halos as main
\* traces; with halo off the figure has no halo trace.
C11_HaloUnderEachSegment ==
    BoundaryCall =>
        IF call.halo
        THEN /\ \A n \in MainTraces :
                    /\ n - 1 \in HaloTraces
                    /\ SameEndpoints(n - 1, n)
                    /\ fig.data[n - 1].width = fig.data[n].width + halo_width_extra
             /\ \A n \in HaloTraces : n + 1 \in MainTraces
             /\ Cardinality(HaloTraces) = Cardinality(MainTraces)
        ELSE HaloTraces = {}

\* Halo on and at least two segments drawn.
C11_Witness ==
    /\ BoundaryCall
    /\ call.halo
    /\ Cardinality(MainTraces) >= 2
    /\ Cardinality(HaloTraces) >= 2

\* The spacing of the centres of a row or column: the step between the
\* first two, or the 2 ft the tracer assumes when there is only one.
Spacing(cent) == IF Len(cent) > 1 THEN cent[2] - cent[1] ELSE 8
RowCentres == [i \in 1..Len(call.Y) |-> call.Y[i][1]]
ColCentres == call.X[1]

\* The grid is split by one straight line: left of column k one label,
\* right of it another; or above row k one label, below it another.
SplitAfterColumn(k) ==
    /\ k \in 1..(Len(ColCentres) - 1)
    /\ \A i \in 1..Len(call.labels), j \in 1..Len(ColCentres) :
        call.labels[i][j] = call.labels[1][IF j <= k THEN 1 ELSE k + 1]
    /\ call.labels[1][1] # call.labels[1][k + 1]
SplitAfterRow(k) ==
    /\ k \in 1..(Len(RowCentres) - 1)
    /\ \A i \in 1..Len(RowCentres), j \in 1..Len(ColCentres) :
        call.labels[i][j] = call.labels[IF i <= k THEN 1 ELSE k + 1][1]
    /\ call.labels[1][1] # call.labels[k + 1][1]

\* C12: a boundary lies on the edge between two cells: between cell (i, j)
\* and its right neighbour it is vertical, halfway between the two centres,
\* and spans the row from half a spacing under its centre to half a spacing
\* over it; between (i, j) and the cell below it is horizontal, halfway
\* between the centres, and spans the column likewise.  Every line of the
\* figure is one of these.  On a grid split by one straight line every
\* line lies on that line.
C12_SegmentsOnCellEdges ==
    BoundaryCall =>
        LET OnSide(t, c) ==
                /\ t.x = <<(call.X[c[1]][c[2]] + call.X[c[1]][c[2] + 1]) \div 2,
                           (call.X[c[1]][c[2]] + call.X[c[1]][c[2] + 1]) \div 2>>
                /\ 2 * t.x[1] = call.X[c[1]][c[2]] + call.X[c[1]][c[2] + 1]
                /\ 2 * t.y[1] = (2 * RowCentres[c[1]]) - Spacing(RowCentres)
                /\ 2 * t.y[2] = (2 * RowCentres[c[1]]) + Spacing(RowCentres)
            OnStack(t, c) ==
                /\ t.y[1] = t.y[2]
                /\ 2 * t.y[1] = call.Y[c[1]][c[2]] + call.Y[c[1] + 1][c[2]]
                /\ 2 * t.x[1] = (2 * ColCentres[c[2]]) - Spacing(ColCentres)
                /\ 2 * t.x[2] = (2 * ColCentres[c[2]]) + Spacing(ColCentres)
            Lines == MainTraces \cup HaloTraces
        IN  /\ \A c \in SidePairs :
                call.labels[c[1]][c[2]] # call.labels[c[1]][c[2] + 1] =>
                    \E n \in MainTraces : OnSide(fig.data[n], c)
            /\ \A c \in StackPairs :
                call.labels[c[1]][c[2]] # call.labels[c[1] + 1][c[2]] =>
                    \E n \in MainTraces : OnStack(fig.data[n], c)
            /\ \A n \in Lines :
                \/ \E c \in SidePairs : OnSide(fig.data[n], c)
                \/ \E c \in StackPairs : OnStack(fig.data[n], c)
            /\ \A k \in 1..Len(ColCentres) : SplitAfterColumn(k) =>
                \A n \in Lines :
                    /\ 2 * fig.data[n].x[1] = ColCentres[k] + ColCentres[k + 1]
                    /\ 2 * fig.data[n].x[2] = ColCentres[k] + ColCentres[k + 1]
            /\ \A k \in 1..Len(RowCentres) : SplitAfterRow(k) =>
                \A n \in Lines :
                    /\ 2 * fig.data[n].y[1] = RowCentres[k] + RowCentres[k + 1]
                    /\ 2 * fig.data[n].y[2] = RowCentres[k] + RowCentres[k + 1]

\* A grid of two rows split after its first column, a line drawn in each row.
C12_Witness ==
    /\ BoundaryCall
    /\ Len(RowCentres) >= 2
    /\ Len(ColCentres) >= 2
    /\ SplitAfterColumn(1)
    /\ Cardinality(MainTraces) = Len(RowCentres)

-----------------------------------------------------------------------------
(* Direct calls of render_3d_trajectories                                  *)

\* The call c has returned r.
Rendered(c, r) ==
    /\ call' = c
    /\ fig' = r.fig
    /\ st_log' = r.st_log
    /\ trace_log' = r.trace_log

Render ==
    /\ Idle
    /\ \E df \in PlayerFrames, league_df \in LeagueFrames \cup {NoneFrame},
          sample \in SampleCaps, overlay_heatmap \in BOOLEAN, vlim \in Vlims,
          force_make_miss_colors \in BOOLEAN :
        \E picked \in Samples(df, sample) :
            Rendered([fn |-> "render_3d_trajectories", df |-> df,
                      league_df |-> league_df, sample |-> sample,
                      overlay_heatmap |-> overlay_heatmap, vlim |-> vlim,
                      force_make_miss_colors |-> force_make_miss_colors],
                     render_3d_trajectories(df, league_df, sample, overlay_heatmap, vlim,
                                            force_make_miss_colors, picked, layout))
    /\ ret' = None
    /\ UNCHANGED <<layout, prev_grid, session, form, controls, run>>

\* The page is shown; the next call starts from nothing.
ReturnRender ==
    /\ ~Idle
    /\ call' = NoCall
    /\ ret' = None
    /\ fig' = NoFig
    /\ st_log' = <<>>
    /\ trace_log' = <<>>
    /\ UNCHANGED <<layout, prev_grid, session, form, controls, run>>

NextRender == Render \/ ReturnRender

\* The zone layouts the renderer is run over.
RenderLayouts == {0, 3}

InitRender ==
    /\ InitGrid
    /\ layout \in RenderLayouts

SpecRender == InitRender /\ [][NextRender]_vars

RenderCall == call.fn = "render_3d_trajectories"

ShownKinds(kind) == {n \in 1..Len(st_log) : st_log[n].kind = kind}
CallsOf(fn) == {n \in 1..Len(trace_log) : trace_log[n].fn = fn}
TracesOf(kind) == {n \in 1..Len(fig.data) : fig.data[n].kind = kind}

\* C1: with the overlay asked for and the league table None or empty, the
\* renderer warns and computes no grid: zone_diff_grid is not called and the
\* figure gets no surface, no hover markers and no boundary segment.
C1_MissingLeagueWarns ==
    (RenderCall /\ call.overlay_heatmap
        /\ (call.league_df.none \/ Len(call.league_df.rows) = 0)) =>
        /\ Cardinality(ShownKinds("warning")) = 1
        /\ CallsOf("zone_diff_grid") = {}
        /\ CallsOf("add_zone_heatmap_surface") = {}
        /\ CallsOf("add_zone_hover_markers") = {}
        /\ CallsOf("add_zone_boundaries_from_labels") = {}
        /\ TracesOf("surface") = {}
        /\ TracesOf("markers") = {}
        /\ TracesOf("line") = {}

\* The overlay asked for with an empty league table (not None) and shots to draw.
C1_Witness ==
    /\ RenderCall
    /\ call.overlay_heatmap
    /\ ~call.league_df.none
    /\ Len(call.league_df.rows) = 0
    /\ Len(call.df.rows) > 0
    /\ ShownKinds("warning") # {}
    /\ TracesOf("surface") = {}

\* C15: every call of the renderer has add_shots_from_df draw the arcs
\* once, with the caller's sample cap, and reports the number of arcs drawn
\* once: as many as the figure shows, the shots of df up to the cap; with
\* the overlay off, on, or on without a league table.
C15_ArcsOnceCountOnce ==
    RenderCall =>
        /\ Cardinality(CallsOf("add_shots_from_df")) = 1
        /\ \A n \in CallsOf("add_shots_from_df") : trace_log[n].arg = call.sample
        /\ Cardinality(ShownKinds("caption")) = 1
        /\ \A n \in ShownKinds("caption") :
            /\ st_log[n].value = Cardinality(TracesOf("arc"))
            /\ st_log[n].value = IF Len(call.df.rows) < call.sample
                                 THEN Len(call.df.rows) ELSE call.sample
        /\ Cardinality(ShownKinds("plotly_chart")) = 1

\* The overlay asked for without a league table, two shots and a cap of
\* one: the warning, one arc, and the count 1.
C15_Witness ==
    /\ RenderCall
    /\ call.overlay_heatmap
    /\ call.league_df.none
    /\ Len(call.df.rows) = 2
    /\ call.sample = 1
    /\ ShownKinds("warning") # {}
    /\ Cardinality(TracesOf("arc")) = 1
    /\ \E n \in ShownKinds("caption") : st_log[n].value = 1

-----------------------------------------------------------------------------
(* The app: reruns of the script, one per interaction                       *)

Forms ==
    {Form(available_players[p], available_seasons[a], available_seasons[b], SeasonTypes[t]) :
        p \in 1..Len(available_players), a \in 1..NumSeasons, b \in 1..NumSeasons,
        t \in 1..Len(SeasonTypes)}

Results == {"All", "Makes", "Misses"}

\* The settings one interaction away from c: one widget moved.  Moving a
\* widget the model does not follow (venue, quarters, distance) leaves c.
OneControlAway(c) ==
    {c}
    \cup {[c EXCEPT !.sample = v] : v \in SampleCaps}
    \cup {[c EXCEPT !.show_heatmap = ~@]}
    \cup {[c EXCEPT !.mm = v] : v \in Results}
    \cup {[c EXCEPT !.rg = ~@]}

InitApp ==
    /\ layout = 0
    /\ call = NoCall
    /\ ret = None
    /\ fig = NoFig
    /\ st_log = <<>>
    /\ trace_log = <<>>
    /\ prev_grid = NoGrid
    /\ AppIdle

\* The page of a run that does not reach the renderer.
Stopped(outcome, loads) ==
    /\ call' = NoCall
    /\ fig' = NoFig
    /\ st_log' = page_message(outcome)
    /\ trace_log' = loads

\* What the renderer returned, after what the script did before calling it.
in_page(r, loads) ==
    [r EXCEPT !.st_log = <<Shown("title", 0)>> \o @, !.trace_log = loads \o @]

\* One run of the script: the form holds f, the other widgets c, and the
\* submit button was pressed or not.  A run stopped at the season check
\* draws no widget below the form, so these start from their defaults when
\* they are drawn again.
Rerun(submitted, f, c) ==
    /\ session' = session_after(session, submitted, f)
    /\ form' = f
    /\ controls' = IF range_invalid(f) THEN DefaultControls ELSE c
    /\ run' = run_of(session', submitted, f, c)
    /\ IF page_outcome(session', f, c) = "rendered"
       THEN \E picked \in Samples(filter_df(session'.player_df, c), c.sample) :
                Rendered([fn |-> "render_3d_trajectories",
                          df |-> filter_df(session'.player_df, c),
                          league_df |-> session'.league_df, sample |-> c.sample,
                          overlay_heatmap |-> c.show_heatmap, vlim |-> c.vlim,
                          force_make_miss_colors |-> c.rg],
                         in_page(render_3d_trajectories(
                                    filter_df(session'.player_df, c), session'.league_df,
                                    c.sample, c.show_heatmap, c.vlim, c.rg, picked, layout),
                                 fetch_calls(submitted, f, session) \o page_calls("rendered")))
       ELSE Stopped(page_outcome(session', f, c),
                    fetch_calls(submitted, f, session)
                        \o page_calls(page_outcome(session', f, c)))
    /\ ret' = None
    /\ UNCHANGED <<layout, prev_grid>>

\* The page is opened.
FirstRun ==
    /\ ~session.initialized
    /\ Rerun(FALSE, DefaultForm, DefaultControls)

\* "Update Visualization" is pressed with some choice in the form.
SubmitForm ==
    /\ session.initialized
    /\ \E f \in Forms : Rerun(TRUE, f, controls)

\* A widget outside the form is moved; the form keeps what it held.
ChangeControl ==
    /\ session.initialized
    /\ run.outcome # "invalid_range"
    /\ \E c \in OneControlAway(controls) : Rerun(FALSE, form, c)

NextApp == FirstRun \/ SubmitForm \/ ChangeControl

SpecApp == InitApp /\ [][NextApp]_vars

Loads(log) == {n \in 1..Len(log) : log[n].fn \in {"load_shotlog", "load_shotlog_multi"}}

\* C2: a run loads shot data exactly when it was started by the form's
\* submit button, the season range of the form is in order, and the
\* requested key is not the loaded one; a run that does not load leaves
\* player_df, league_df and loaded_key as they were, and a run that loads
\* leaves the requested key as the loaded one.
C2_LoadIffNewValidKeySubmitted ==
    [][/\ (Loads(trace_log') # {}) <=>
            (/\ run'.submitted
             /\ form'.season_min <= form'.season_max
             /\ requested_key(form') # session.loaded_key)
       /\ (Loads(trace_log') = {}) =>
            /\ session'.player_df = session.player_df
            /\ session'.league_df = session.league_df
            /\ session'.loaded_key = session.loaded_key
       /\ (Loads(trace_log') # {}) =>
            /\ session'.loaded_key = requested_key(form')
            /\ session'.loaded_key # session.loaded_key]_vars

\* C2 as stated: a run loads exactly when the form was submitted with a
\* key that is not the loaded one.
C2_LoadIffNewKeySubmitted ==
    [][(Loads(trace_log') # {}) <=>
            (run'.submitted /\ requested_key(form') # session.loaded_key)]_vars

\* The loaded key is submitted again and nothing is loaded.
C2_Witness ==
    /\ run.submitted
    /\ session.loaded_key = requested_key(form)
    /\ Loads(trace_log) = {}
    /\ run.outcome = "rendered"

\* C9: a loaded player table without shots does not make the run fail: the
\* page says there are no shots and draws no arc.
C9_EmptyPlayerTableHandled ==
    (session.initialized /\ ~session.player_df.none /\ Len(session.player_df.rows) = 0
        /\ run.outcome \notin {"invalid_range", "heatmap_needs_all"}) =>
        /\ run.outcome = "no_shots"
        /\ TracesOf("arc") = {}

\* The run got past the season check and the landing page.
ReachedGate ==
    /\ session.initialized
    /\ run.outcome \notin {"none", "invalid_range", "landing"}

\* C14: a run with shot data loaded, the heatmap on and a Result other than
\* All reports an error and stops: filter_df and render_3d_trajectories are
\* not called and nothing is drawn.  No run at all filters or renders with
\* that setting, and the renderer is called with the overlay only when
\* Result is All, on all the loaded shots.
C14_HeatmapOnlyOnAllResults ==
    /\ (ReachedGate /\ controls.show_heatmap /\ controls.mm # "All") =>
        /\ run.outcome = "heatmap_needs_all"
        /\ ShownKinds("error") # {}
    /\ (session.initialized /\ controls.show_heatmap /\ controls.mm # "All") =>
        /\ CallsOf("filter_df") = {}
        /\ ~RenderCall
        /\ fig = NoFig
    /\ (RenderCall /\ call.overlay_heatmap) =>
        /\ controls.mm = "All"
        /\ call.df = session.player_df

\* C14 as stated: every run with the heatmap on and a Result other than All
\* reports an error.
C14_EveryRunReportsError ==
    (session.initialized /\ controls.show_heatmap /\ controls.mm # "All") =>
        /\ ShownKinds("error") # {}
        /\ CallsOf("filter_df") = {}
        /\ ~RenderCall

\* Shots are loaded, the heatmap is on, Result is Makes: the run stops at
\* the error.
C14_Witness ==
    /\ ReachedGate
    /\ controls.show_heatmap
    /\ controls.mm = "Makes"
    /\ Len(session.player_df.rows) > 0
    /\ run.outcome = "heatmap_needs_all"
    /\ ShownKinds("error") # {}

\* C20: after every run the season range of the session is in order, and
\* so is the range in loaded_key; a run whose form has Season (min) later
\* than Season (max) reports the error, leaves the session as it was and
\* loads nothing.
C20_SeasonRangeValid ==
    [][/\ session'.season_min <= session'.season_max
       /\ session'.loaded_key # NoKey => session'.loaded_key[2] <= session'.loaded_key[3]
       /\ form'.season_min > form'.season_max =>
            /\ run'.outcome = "invalid_range"
            /\ \E n \in 1..Len(st_log') : st_log'[n].kind = "error"
            /\ session'.season_min = session.season_min
            /\ session'.season_max = session.season_max
            /\ session'.loaded_key = session.loaded_key
            /\ session'.player_df = session.player_df
            /\ session'.league_df = session.league_df
            /\ Loads(trace_log') = {}]_vars

\* Data is loaded, then the form is submitted with the seasons the wrong
\* way round: the session keeps the range and the key it had.
C20_Witness ==
    /\ run.submitted
    /\ form.season_min > form.season_max
    /\ run.outcome = "invalid_range"
    /\ session.loaded_key # NoKey
    /\ session.season_min <= session.season_max
    /\ <<form.season_min, form.season_max>> # <<session.season_min, session.season_max>>

\* What the statistics service holds for the key k.
DataOf(k) == fetch(Form(k[1], k[2], k[3], k[4]))

\* The session holds nothing, or the key of a load with the frames of it.
SessionConsistent ==
    /\ session.player_df.none <=> session.loaded_key = NoKey
    /\ session.league_df.none <=> session.loaded_key = NoKey
    /\ session.loaded_key # NoKey =>
        /\ session.player_df = DataOf(session.loaded_key)[1]
        /\ session.league_df = DataOf(session.loaded_key)[2]

\* The page shows the loaded data under the loaded key's name.
PageFromLoadedKey ==
    /\ run.caption # <<>> =>
        /\ session.loaded_key # NoKey
        /\ run.caption = <<session.loaded_key[1], session.loaded_key[2], session.loaded_key[3]>>
    /\ run.outcome \in {"no_shots", "rendered"} =>
        /\ run.total_shots <= Len(DataOf(session.loaded_key)[1].rows)
        /\ controls.mm = "All" => run.total_shots = Len(DataOf(session.loaded_key)[1].rows)
    /\ RenderCall =>
        /\ call.league_df = DataOf(session.loaded_key)[2]
        /\ \A n \in 1..Len(call.df.rows) :
            \E m \in 1..Len(DataOf(session.loaded_key)[1].rows) :
                call.df.rows[n] = DataOf(session.loaded_key)[1].rows[m]

\* C21: after every run player_df and league_df are None exactly when
\* loaded_key is, and otherwise are the frames of the load of that key; the
\* three change only in a run that loads, which sets all three from the
\* requested key; and the caption and the shots on the page are those of
\* loaded_key.
C21_LoadedKeyAndDataConsistent ==
    [][/\ SessionConsistent'
       /\ PageFromLoadedKey'
       /\ (\/ session'.loaded_key # session.loaded_key
           \/ session'.player_df # session.player_df
           \/ session'.league_df # session.league_df) =>
            /\ Loads(trace_log') # {}
            /\ session'.loaded_key = requested_key(form')
            /\ session'.loaded_key # session.loaded_key
            /\ session'.player_df = DataOf(requested_key(form'))[1]
            /\ session'.league_df = DataOf(requested_key(form'))[2]]_vars

\* A second player is loaded over the first: the key and the frames are
\* the second player's, and so are the caption and the arcs.
C21_Witness ==
    /\ run.submitted
    /\ Loads(trace_log) # {}
    /\ session.loaded_key # NoKey
    /\ session.loaded_key[1] = available_players[2]
    /\ run.outcome = "rendered"
    /\ run.caption[1] = available_players[2]
    /\ session.player_df # DataOf(<<available_players[1], session.loaded_key[2],
                                     session.loaded_key[3], session.loaded_key[4]>>)[1]

====
